---- MODULE Spec2Model ----
(***************************************************************************)
(* Graph ingestion pipeline of the workflow canvas                         *)
(* (frontend/src/components/WorkflowCanvas.jsx): the useEffect that reads  *)
(* the graphData prop, detects its shape, normalizes nodes and edges,      *)
(* resolves the branch of edges leaving decision nodes and installs the    *)
(* result in the canvas state; and the console that owns the graph         *)
(* (frontend/src/components/WorkflowConsole.jsx): prompt submission, the    *)
(* generation request and its response, and the sample graph.               *)
(*                                                                         *)
(* JavaScript values are tagged records [t |-> type tag, s |-> string      *)
(* form], so that String(v), truthiness and === are computed as the        *)
(* language computes them.                                                 *)
(***************************************************************************)
EXTENDS Integers, Sequences, FiniteSets

VARIABLES
    graphData,  \* WorkflowConsole state graphData, the prop of the canvas
    nodes,      \* WorkflowCanvas state nodes
    edges,      \* WorkflowCanvas state edges
    pc,         \* position of the canvas effect
    status,     \* WorkflowConsole state status
    prompt,     \* WorkflowConsole state prompt
    requests,   \* the invocations of handleSubmit suspended at an await
    sources,    \* number of graph sources invoked so far (submissions, sample loads)
    edits       \* number of interactive changes made on the canvas so far

consoleVars == <<status, prompt, requests, sources, edits>>

vars == <<graphData, nodes, edges, pc, status, prompt, requests, sources, edits>>

-----------------------------------------------------------------------------
(* JavaScript values *)

Undefined == [t |-> "undefined", s |-> "undefined"]
Null      == [t |-> "null", s |-> "null"]
Str(x)    == [t |-> "string", s |-> x]
Num(x)    == [t |-> "number", s |-> x]
Bool(x)   == [t |-> "boolean", s |-> x]
Obj(x)    == [t |-> "object", s |-> x]

\* the literal {} of `n.config || n.data?.config || {}` and `n.params || {}`
EmptyObject == Obj("{}")

\* ToBoolean: undefined, null, false, 0, NaN and "" are falsy
ToBoolean(v) ==
    CASE v.t = "undefined" -> FALSE
      [] v.t = "null"      -> FALSE
      [] v.t = "boolean"   -> v.s = "true"
      [] v.t = "number"    -> v.s \notin {"0", "NaN"}
      [] v.t = "string"    -> v.s # ""
      [] OTHER             -> TRUE

\* String(v)
String(v) == IF v.t = "object" THEN "[object Object]" ELSE v.s

\* a || b
Or(a, b) == IF ToBoolean(a) THEN a ELSE b

\* String.prototype.toLowerCase on the strings of the model
ToLowerCase(x) ==
    CASE x \in {"true", "True", "TRUE"}    -> "true"
      [] x \in {"false", "False", "FALSE"} -> "false"
      [] x \in {"go", "Go", "GO"}          -> "go"
      [] x \in {"x", "X"}                  -> "x"
      [] x \in {"A", "a"}                  -> "a"
      [] x \in {"D", "d"}                  -> "d"
      [] OTHER                             -> x

\* String.prototype.toUpperCase on the strings of the model
ToUpperCase(x) ==
    CASE x \in {"true", "True", "TRUE"}    -> "TRUE"
      [] x \in {"false", "False", "FALSE"} -> "FALSE"
      [] x \in {"go", "Go", "GO"}          -> "GO"
      [] x \in {"x", "X"}                  -> "X"
      [] x \in {"A", "a"}                  -> "A"
      [] x \in {"D", "d"}                  -> "D"
      [] x = "undefined"                   -> "UNDEFINED"
      [] x = "null"                        -> "NULL"
      [] x = "[object Object]"             -> "[OBJECT OBJECT]"
      [] OTHER                             -> x

\* arrays: [t |-> "array", items |-> <<...>>]; an absent list is UndefinedList
Arr(xs)       == [t |-> "array", items |-> xs]
UndefinedList == [t |-> "undefined", items |-> <<>>]

\* list || []
OrEmpty(l) == IF l.t = "array" THEN l ELSE Arr(<<>>)

-----------------------------------------------------------------------------
(* nodeTypes, WorkflowCanvas.jsx:7-19 *)

nodeTypes ==
    {"trigger", "action", "condition", "utility", "control", "http",
     "integration", "script", "log", "webhook", "default"}

\* nodeTypes is an object literal: a property read also finds the members it
\* inherits from Object.prototype, all of them truthy
ObjectPrototypeKeys ==
    {"constructor", "toString", "toLocaleString", "valueOf", "hasOwnProperty",
     "isPrototypeOf", "propertyIsEnumerable", "__proto__"}

\* nodeTypes[key] is truthy
NodeTypesLookup(key) == key \in nodeTypes \cup ObjectPrototypeKeys

-----------------------------------------------------------------------------
(* normalizedNodes, WorkflowCanvas.jsx:85-103 *)

\* n.data?.f
DataField(n, f) == IF n.data.t \in {"undefined", "null"} THEN Undefined ELSE n.data[f]

MappedType(n) ==
    LET nodeType == Or(n.type, Str("default"))
    IN  IF NodeTypesLookup(String(nodeType)) THEN nodeType ELSE Str("default")

NormalizeNode(n) ==
    [ id   |-> Str(String(n.id)),
      type |-> MappedType(n),
      data |-> [ label    |-> Or(Or(n.label, DataField(n, "label")), Str("Untitled")),
                 nodeType |-> Or(n.type, DataField(n, "nodeType")),
                 config   |-> Or(Or(n.config, DataField(n, "config")), EmptyObject),
                 params   |-> Or(n.params, EmptyObject),
                 integration_type_name |-> n.integration_type_name,
                 task     |-> n.task,
                 task_display_name |-> n.task_display_name ],
      position |-> IF n.position.t = "object" THEN n.position
                   ELSE [t |-> "object", x |-> 0, y |-> 0] ]

normalizedNodes(rawNodes) == [i \in 1..Len(rawNodes) |-> NormalizeNode(rawNodes[i])]

-----------------------------------------------------------------------------
(* processedEdges, WorkflowCanvas.jsx:106-130 *)

\* normalizedNodes.find(n => n.id === source): index of the first match, 0 if none
FindIndex(ns, source) ==
    LET hits == {i \in 1..Len(ns) : ns[i].id = source}
    IN  IF hits = {} THEN 0 ELSE CHOOSE i \in hits : \A j \in hits : i <= j

\* sourceNode?.data?.nodeType === 'condition' || sourceNode?.type === 'control'
IsDecision(ns, source) ==
    LET k == FindIndex(ns, source)
    IN  k # 0 /\ (ns[k].data.nodeType = Str("condition") \/ ns[k].type = Str("control"))

\* edge.condition?.value
ConditionValue(edge) ==
    IF edge.condition.t \in {"undefined", "null"} THEN Undefined ELSE edge.condition.value

\* SourceHandle comparing the label with 'true' and 'false' as it is written
SourceHandleCaseSensitive(edge, isDecision) ==
    LET h0 == edge.sourceHandle
        h1 == IF isDecision /\ ToBoolean(edge.label)
              THEN IF String(edge.label) = "false" THEN Str("false")
                   ELSE IF String(edge.label) = "true" THEN Str("true")
                   ELSE h0
              ELSE h0
    IN  IF isDecision /\ ~ToBoolean(h1) /\ ToBoolean(ConditionValue(edge))
        THEN ConditionValue(edge)
        ELSE h1

SourceHandle(edge, isDecision) ==
    LET h0 == edge.sourceHandle
        labelLower == ToLowerCase(String(edge.label))
        h1 == IF isDecision /\ ToBoolean(edge.label)
              THEN IF labelLower = "false" THEN Str("false")
                   ELSE IF labelLower = "true" THEN Str("true")
                   ELSE h0
              ELSE h0
    IN  IF isDecision /\ ~ToBoolean(h1) /\ ToBoolean(ConditionValue(edge))
        THEN ConditionValue(edge)
        ELSE h1

\* the decimal form of the 0-based array index idx of the map callback
Digit(d) ==
    CASE d = 0 -> "0" [] d = 1 -> "1" [] d = 2 -> "2" [] d = 3 -> "3" [] d = 4 -> "4"
      [] d = 5 -> "5" [] d = 6 -> "6" [] d = 7 -> "7" [] d = 8 -> "8" [] OTHER -> "9"

RECURSIVE IdxString(_)
IdxString(idx) ==
    IF idx < 10 THEN Digit(idx) ELSE IdxString(idx \div 10) \o Digit(idx % 10)

EdgeLabel(edge) ==
    Or(edge.label,
       IF ToBoolean(ConditionValue(edge))
       THEN Str(ToUpperCase(String(ConditionValue(edge))))
       ELSE Str(""))

ProcessEdge(edge, idx, ns) ==
    LET source == Str(String(Or(edge.source, edge.from)))
        target == Str(String(Or(edge.target, edge.to)))
    IN  [ id     |-> Or(edge.id, Str("e-" \o IdxString(idx))),
          source |-> source,
          target |-> target,
          sourceHandle |-> SourceHandle(edge, IsDecision(ns, source)),
          label  |-> EdgeLabel(edge) ]

\* processedEdges with the edges whose target is no node of the list filtered out
processedEdgesFiltered(rawEdges, ns) ==
    SelectSeq([i \in 1..Len(rawEdges) |-> ProcessEdge(rawEdges[i], i - 1, ns)],
              LAMBDA e : \E k \in 1..Len(ns) : ns[k].id = e.target)

processedEdges(rawEdges, ns) ==
    [i \in 1..Len(rawEdges) |-> ProcessEdge(rawEdges[i], i - 1, ns)]

-----------------------------------------------------------------------------
(* shape detection, WorkflowCanvas.jsx:71-82 *)

\* graphData.workflows && graphData.workflows[0]
HasFirstWorkflow(g) ==
    g.workflows.t = "array" /\ Len(g.workflows.items) > 0
      /\ g.workflows.items[1].t = "object"

\* const w = graphData.workflows[0].workflow_data
FirstWorkflowData(g) == g.workflows.items[1].workflow_data

\* w.nodes / w.connections read a property of undefined: TypeError
ShapeRaises(g) ==
    HasFirstWorkflow(g) /\ FirstWorkflowData(g).t \in {"undefined", "null"}

\* RawNodes taking the presence of the workflows container alone for the
\* nested shape
RawNodesOfContainer(g) ==
    IF g.workflows.t = "array"
    THEN IF HasFirstWorkflow(g) THEN OrEmpty(FirstWorkflowData(g).nodes).items ELSE <<>>
    ELSE OrEmpty(g.nodes).items

RawNodes(g) ==
    IF HasFirstWorkflow(g) THEN OrEmpty(FirstWorkflowData(g).nodes).items
    ELSE OrEmpty(g.nodes).items

\* RawEdges reading the edges field in both shapes
RawEdgesFromEdges(g) == OrEmpty(g.edges).items

RawEdges(g) ==
    IF HasFirstWorkflow(g) THEN OrEmpty(FirstWorkflowData(g).connections).items
    ELSE OrEmpty(g.edges).items

\* the canonical graph of a raw graph on which the pass completes
CanonicalNodes(g) == normalizedNodes(RawNodes(g))
CanonicalEdges(g) == processedEdges(RawEdges(g), CanonicalNodes(g))

-----------------------------------------------------------------------------
(* getLayoutedElements, WorkflowCanvas.jsx:21-62 *)

DiamondWidth  == 300
DiamondHeight == 150
RectWidth     == 250
RectHeight    == 120
ranksep       == 200
nodesep       == 100

\* node.data?.nodeType === 'condition' || node.type === 'control'
isDiamond(node) == node.data.nodeType = Str("condition") \/ node.type = Str("control")

FootprintWidth(node)  == IF isDiamond(node) THEN DiamondWidth ELSE RectWidth
FootprintHeight(node) == IF isDiamond(node) THEN DiamondHeight ELSE RectHeight

Max(S) == CHOOSE x \in S : \A y \in S : y <= x
Min(S) == CHOOSE x \in S : \A y \in S : x <= y

\* every id handed to dagreGraph.setNode and dagreGraph.setEdge, in call order
GraphIds(ns, es) ==
    [i \in 1..Len(ns) |-> ns[i].id]
      \o [i \in 1..Len(es) |-> es[i].source]
      \o [i \in 1..Len(es) |-> es[i].target]

Vertices(ns, es) == {GraphIds(ns, es)[i] : i \in 1..Len(GraphIds(ns, es))}

\* insertion order of a vertex of the dagre graph
VertexOrder(ns, es, v) == Min({i \in 1..Len(GraphIds(ns, es)) : GraphIds(ns, es)[i] = v})

\* setNode(id, {width, height}) replaces the label of an id already set; a
\* vertex created by setEdge alone has no dimensions
VertexNode(ns, v) ==
    LET hits == {i \in 1..Len(ns) : ns[i].id = v}
    IN  IF hits = {} THEN 0 ELSE Max(hits)

VertexWidth(ns, v) ==
    IF VertexNode(ns, v) = 0 THEN 0 ELSE FootprintWidth(ns[VertexNode(ns, v)])
VertexHeight(ns, v) ==
    IF VertexNode(ns, v) = 0 THEN 0 ELSE FootprintHeight(ns[VertexNode(ns, v)])

\* dagreGraph.setEdge(edge.source, edge.target) with the source and the target
\* exchanged
DagreEdgeReversed(edge) == <<edge.target, edge.source>>

\* dagreGraph.setEdge(edge.source, edge.target)
DagreEdge(edge) == <<edge.source, edge.target>>

\* v is reachable from u along the edges of E (pairs), in at most k steps
RECURSIVE Reaches(_, _, _, _)
Reaches(E, u, v, k) ==
    \/ u = v
    \/ /\ k > 0
       /\ \E e \in E : e[1] = u /\ Reaches(E, e[2], v, k - 1)

\* the edges kept for ranking: an edge that would close a cycle is left out
RECURSIVE AcyclicEdges(_, _)
AcyclicEdges(es, k) ==
    IF k = 0 THEN {}
    ELSE LET kept == AcyclicEdges(es, k - 1)
             e    == DagreEdge(es[k])
         IN  IF Reaches(kept, e[2], e[1], Cardinality(kept)) THEN kept
             ELSE kept \cup {e}

\* rank of a vertex: the longest path of kept edges that ends in it
RECURSIVE RankOf(_, _, _)
RankOf(E, v, k) ==
    IF k = 0 THEN 0
    ELSE Max({0} \cup {RankOf(E, e[1], k - 1) + 1 : e \in {d \in E : d[2] = v}})

Rank(ns, es, v) ==
    LET E == AcyclicEdges(es, Len(es)) IN RankOf(E, v, Cardinality(E))

Layer(ns, es, r) == {v \in Vertices(ns, es) : Rank(ns, es, v) = r}

LayerWidth(ns, es, r) == Max({0} \cup {VertexWidth(ns, v) : v \in Layer(ns, es, r)})

RECURSIVE SumWidths(_, _, _)
SumWidths(ns, es, r) ==
    IF r = 0 THEN 0
    ELSE SumWidths(ns, es, r - 1) + LayerWidth(ns, es, r - 1) + ranksep

RECURSIVE SumHeights(_, _)
SumHeights(ns, S) ==
    IF S = {} THEN 0
    ELSE LET v == CHOOSE x \in S : TRUE
         IN  VertexHeight(ns, v) + nodesep + SumHeights(ns, S \ {v})

\* dagreGraph.node(id) after dagre.layout: the centre of the vertex
DagreNode(ns, es, v) ==
    LET r == Rank(ns, es, v)
        above == {u \in Layer(ns, es, r) : VertexOrder(ns, es, u) < VertexOrder(ns, es, v)}
    IN  [ x |-> SumWidths(ns, es, r) + LayerWidth(ns, es, r) \div 2,
          y |-> SumHeights(ns, above) + VertexHeight(ns, v) \div 2 ]

\* LayoutNode leaving a node where its raw position put it, when it had one
LayoutNodeKeepingPosition(ns, es, node) ==
    LET nodeWithPosition == DagreNode(ns, es, node.id)
    IN  [ id   |-> node.id,
          type |-> node.type,
          data |-> node.data,
          targetPosition |-> "left",
          sourcePosition |-> "right",
          position |-> IF node.position.x # 0 \/ node.position.y # 0
                       THEN node.position
                       ELSE [ t |-> "object",
                              x |-> nodeWithPosition.x - FootprintWidth(node) \div 2,
                              y |-> nodeWithPosition.y - FootprintHeight(node) \div 2 ] ]

LayoutNode(ns, es, node) ==
    LET nodeWithPosition == DagreNode(ns, es, node.id)
    IN  [ id   |-> node.id,
          type |-> node.type,
          data |-> node.data,
          targetPosition |-> "left",
          sourcePosition |-> "right",
          position |-> [ t |-> "object",
                         x |-> nodeWithPosition.x - FootprintWidth(node) \div 2,
                         y |-> nodeWithPosition.y - FootprintHeight(node) \div 2 ] ]

getLayoutedElements(ns, es) ==
    [ nodes |-> [i \in 1..Len(ns) |-> LayoutNode(ns, es, ns[i])],
      edges |-> es ]

\* the canonical node carried by a positioned node
CanonicalOf(node) == [id |-> node.id, type |-> node.type, data |-> node.data]

-----------------------------------------------------------------------------
(* the raw graphs submitted to the canvas *)

MaxNodes == 3
MaxEdges == 3

NoData == [t |-> "undefined", label |-> Undefined, nodeType |-> Undefined,
           config |-> Undefined]
NoPosition == [t |-> "undefined", x |-> 0, y |-> 0]

\* the optional fields of a raw node: all absent; all present at the top
\* level; nested under data, as in the sample graph of WorkflowConsole
NodeDetails ==
    { [ label |-> Undefined, data |-> NoData, config |-> Undefined,
        params |-> Undefined, integration_type_name |-> Undefined,
        task |-> Undefined, task_display_name |-> Undefined,
        position |-> NoPosition ],
      [ label |-> Str("A"), data |-> NoData, config |-> Obj("cfg"),
        params |-> Obj("prm"), integration_type_name |-> Str("Aws"),
        task |-> Str("block_ip_waf"), task_display_name |-> Undefined,
        position |-> [t |-> "object", x |-> 200, y |-> 0] ],
      [ label |-> Undefined,
        data |-> [t |-> "object", label |-> Str("D"), nodeType |-> Str("condition"),
                  config |-> Obj("dcfg")],
        config |-> Undefined, params |-> Undefined,
        integration_type_name |-> Undefined, task |-> Undefined,
        task_display_name |-> Undefined, position |-> NoPosition ] }

NodeIds == {Undefined, Num("0"), Num("1")}

NodeTypeTags ==
    {Undefined, Str("condition"), Str("control"), Str("action"),
     Str("constructor"), Str("switch")}

RawNode(id, type, d) ==
    [ id |-> id, type |-> type, label |-> d.label, data |-> d.data,
      config |-> d.config, params |-> d.params,
      integration_type_name |-> d.integration_type_name, task |-> d.task,
      task_display_name |-> d.task_display_name, position |-> d.position ]

RawNodeValues == {RawNode(id, type, d) : id \in NodeIds, type \in NodeTypeTags,
                                          d \in NodeDetails}

Plain == CHOOSE d \in NodeDetails : d.label = Undefined /\ d.data = NoData
Nested == CHOOSE d \in NodeDetails : d.data # NoData

NoCondition == [t |-> "undefined", value |-> Undefined]
Condition(v) == [t |-> "object", value |-> v]

RawEdge(id, source, from, target, to, sourceHandle, label, condition) ==
    [ id |-> id, source |-> source, from |-> from, target |-> target, to |-> to,
      sourceHandle |-> sourceHandle, label |-> label, condition |-> condition ]

\* edges that vary in how they name their endpoints
EndpointEdges ==
    { RawEdge(id, source, from, target, to, Undefined, Undefined, NoCondition) :
        id \in {Undefined, Str("e9")},
        source \in {Undefined, Num("0"), Num("1"), Num("2"), Str("")},
        from \in {Undefined, Num("2")},
        target \in {Undefined, Num("2")},
        to \in {Undefined, Num("1")} }

\* edges that vary in handle, label and condition
BranchEdges ==
    { RawEdge(Undefined, source, Undefined, Num("2"), Undefined, h, l, c) :
        source \in {Undefined, Num("1"), Num("2")},
        h \in {Undefined, Str("true"), Str("false"), Str("x")},
        l \in {Undefined, Str(""), Str("True"), Str("FALSE"), Str("go")},
        c \in {NoCondition, Condition(Bool("false")), Condition(Bool("true")),
               Condition(Str("true")), Condition(Str("TRUE"))} }

RawEdgeValues == EndpointEdges \cup BranchEdges

SimpleGraph(N, E) ==
    [t |-> "object", workflows |-> UndefinedList, nodes |-> N, edges |-> E]

Workflow(wd) == [t |-> "object", workflow_data |-> wd]
WorkflowData(N, E) == [t |-> "object", nodes |-> N, connections |-> E]
NoWorkflowData == [t |-> "undefined", nodes |-> UndefinedList,
                   connections |-> UndefinedList]

NestedGraph(N, E) ==
    [ t |-> "object", workflows |-> Arr(<<Workflow(WorkflowData(N, E))>>),
      nodes |-> UndefinedList, edges |-> UndefinedList ]

NullGraph == [t |-> "null", workflows |-> UndefinedList, nodes |-> UndefinedList,
              edges |-> UndefinedList]

\* node lists against which the edges are resolved: a decision node and a
\* plain one; a control node, and a node without id or type whose data names a
\* condition; two nodes sharing an id; no node at all
EdgeGraphNodes ==
    { <<RawNode(Num("1"), Str("condition"), Plain), RawNode(Num("2"), Str("action"), Plain)>>,
      <<RawNode(Num("1"), Str("action"), Plain), RawNode(Num("2"), Str("control"), Plain),
        RawNode(Undefined, Undefined, Nested)>>,
      <<RawNode(Num("1"), Str("action"), Plain), RawNode(Num("1"), Str("condition"), Plain)>>,
      <<>> }

PlainEdge == RawEdge(Undefined, Num("1"), Undefined, Undefined, Num("0"), Undefined,
                     Undefined, NoCondition)

\* the elements that precede the varied element of a list
FillerNodes ==
    { RawNode(Num("1"), Str("condition"), Plain), RawNode(Num("2"), Str("action"), Plain) }

FillerEdges ==
    { RawEdge(Undefined, Num("1"), Undefined, Num("2"), Undefined, Undefined,
              Undefined, NoCondition),
      RawEdge(Str("e7"), Undefined, Num("2"), Undefined, Num("1"), Undefined,
              Str("False"), NoCondition) }

\* simple-shape graphs that vary in their nodes: at most MaxNodes nodes, the
\* last of them any raw node
IsNodeGraph(g) ==
    \E k \in 0..(MaxNodes - 1) : \E pre \in [1..k -> FillerNodes] :
      \E n \in RawNodeValues :
        g = SimpleGraph(Arr(Append(pre, n)), Arr(<<PlainEdge>>))

\* simple-shape graphs that vary in their edges: at most MaxEdges edges, the
\* last of them any raw edge
IsEdgeGraph(g) ==
    \E N \in EdgeGraphNodes : \E k \in 0..(MaxEdges - 1) :
      \E pre \in [1..k -> FillerEdges] : \E e \in RawEdgeValues :
        g = SimpleGraph(Arr(N), Arr(Append(pre, e)))

SomeLists(S) == {UndefinedList} \cup {Arr(q) : q \in S}

ShapeNodeLists ==
    SomeLists({ <<>>, <<RawNode(Num("1"), Str("condition"), Plain)>>,
                <<RawNode(Num("1"), Str("action"), Plain),
                  RawNode(Num("2"), Undefined, Nested)>> })

ShapeEdgeLists ==
    SomeLists({ <<>>,
                <<RawEdge(Undefined, Num("1"), Undefined, Num("2"), Undefined,
                          Undefined, Str("True"), NoCondition)>> })

ShapeWorkflows ==
    {UndefinedList, Arr(<<>>), Arr(<<Workflow(NoWorkflowData)>>)}
      \cup {Arr(<<Workflow(WorkflowData(N, E))>>) : N \in ShapeNodeLists, E \in ShapeEdgeLists}
      \cup {Arr(<<Workflow(WorkflowData(N, E)),
                  Workflow(WorkflowData(Arr(<<RawNode(Num("0"), Str("log"), Plain)>>),
                                        Arr(<<>>)))>>) :
              N \in ShapeNodeLists, E \in ShapeEdgeLists}

\* graphs that vary in their shape: with and without the workflows container,
\* with and without top-level lists
ShapeGraphs ==
    { [t |-> "object", workflows |-> W, nodes |-> N, edges |-> E] :
        W \in ShapeWorkflows, N \in ShapeNodeLists, E \in ShapeEdgeLists }

\* a node that names its kind and nothing else
KindNode(id, kind) == RawNode(id, kind, Plain)

\* an edge that names source and target, with or without a label
LinkEdge(source, target, label) ==
    RawEdge(Undefined, source, Undefined, target, Undefined, Undefined, label,
            NoCondition)

ChainKinds == {Str("action"), Str("condition"), Str("control")}

Permutations(S) == {f \in [S -> S] : \A a, b \in S : f[a] = f[b] => a = b}

\* linear chains 1 -> 2 -> 3 over every mix of kinds, the nodes and the edges
\* listed in every order
IsChainGraph(g) ==
    \E kinds \in [1..3 -> ChainKinds] : \E order \in Permutations(1..3) :
      \E edgeOrder \in Permutations(1..2) :
        LET link == <<LinkEdge(Num("1"), Num("2"), Undefined),
                      LinkEdge(Num("2"), Num("3"), Undefined)>>
        IN  g = SimpleGraph(
                  Arr([i \in 1..3 |-> KindNode(Num(IdxString(order[i])), kinds[order[i]])]),
                  Arr([i \in 1..2 |-> link[edgeOrder[i]]]))

\* a trigger, a decision and its two labelled branches
ScenarioGraph ==
    SimpleGraph(
      Arr(<<KindNode(Num("1"), Str("webhook")), KindNode(Num("2"), Str("condition")),
            KindNode(Num("3"), Str("action")), KindNode(Num("4"), Str("log"))>>),
      Arr(<<LinkEdge(Num("1"), Num("2"), Undefined),
            LinkEdge(Num("2"), Num("3"), Str("True")),
            LinkEdge(Num("2"), Num("4"), Str("False"))>>))

\* the graph of loadSampleGraph, WorkflowConsole.jsx:72-82
SampleNode(id, type, label, nodeType, x) ==
    [ id |-> Str(id), type |-> Str(type), label |-> Undefined,
      data |-> [t |-> "object", label |-> Str(label), nodeType |-> Str(nodeType),
                config |-> Undefined],
      config |-> Undefined, params |-> Undefined,
      integration_type_name |-> Undefined, task |-> Undefined,
      task_display_name |-> Undefined,
      position |-> [t |-> "object", x |-> x, y |-> 0] ]

SampleEdge(id, source, target) ==
    RawEdge(Str(id), Str(source), Undefined, Str(target), Undefined, Undefined,
            Undefined, NoCondition)

SampleGraph ==
    SimpleGraph(
      Arr(<<SampleNode("1", "trigger", "Start Trigger", "webhook", 0),
            SampleNode("2", "action", "Fetch Data", "http_request", 200),
            SampleNode("3", "utility", "Log Info", "log", 400)>>),
      Arr(<<SampleEdge("e1-2", "1", "2"), SampleEdge("e2-3", "2", "3")>>))

\* a graph whose first workflow record has no workflow_data
BrokenGraph ==
    [ t |-> "object", workflows |-> Arr(<<Workflow(NoWorkflowData)>>),
      nodes |-> UndefinedList, edges |-> UndefinedList ]

-----------------------------------------------------------------------------
(* WorkflowCanvas, WorkflowCanvas.jsx:65-140 *)

\* the component is mounted with its graphData prop, with no nodes and no
\* edges (useNodesState([]), useEdgesState([])), and its effect is pending
Init ==
    /\ \/ graphData = NullGraph
       \/ IsNodeGraph(graphData)
       \/ IsEdgeGraph(graphData)
       \/ graphData \in ShapeGraphs
       \/ IsChainGraph(graphData)
       \/ graphData \in {ScenarioGraph, SampleGraph}
    /\ nodes = <<>>
    /\ edges = <<>>
    /\ pc = "pending"
    /\ status = IF graphData = NullGraph THEN "idle" ELSE "success"
    /\ prompt = ""
    /\ requests = {}
    /\ sources = IF graphData = NullGraph THEN 0 ELSE 1
    /\ edits = 0

\* if (graphData) is false: the effect does nothing
EffectSkips ==
    /\ pc = "pending"
    /\ graphData.t = "null"
    /\ pc' = "skipped"
    /\ UNCHANGED <<graphData, nodes, edges, consoleVars>>

\* the effect throws before setNodes and setEdges are reached
EffectRaises ==
    /\ pc = "pending"
    /\ graphData.t # "null"
    /\ ShapeRaises(graphData)
    /\ pc' = "raised"
    /\ UNCHANGED <<graphData, nodes, edges, consoleVars>>

\* EffectInstalls adding the edges of the new graph to those on the canvas
EffectInstallsOverEdges ==
    /\ pc = "pending"
    /\ graphData.t # "null"
    /\ ~ShapeRaises(graphData)
    /\ LET layouted == getLayoutedElements(CanonicalNodes(graphData),
                                           CanonicalEdges(graphData))
       IN  /\ nodes' = layouted.nodes
           /\ edges' = edges \o layouted.edges
    /\ pc' = "installed"
    /\ UNCHANGED <<graphData, consoleVars>>

\* the effect runs to its end: normalize, lay out, setNodes, setEdges
EffectInstalls ==
    /\ pc = "pending"
    /\ graphData.t # "null"
    /\ ~ShapeRaises(graphData)
    /\ LET layouted == getLayoutedElements(CanonicalNodes(graphData),
                                           CanonicalEdges(graphData))
       IN  /\ nodes' = layouted.nodes
           /\ edges' = layouted.edges
    /\ pc' = "installed"
    /\ UNCHANGED <<graphData, consoleVars>>

Next == EffectSkips \/ EffectRaises \/ EffectInstalls

Spec == Init /\ [][Next]_vars

-----------------------------------------------------------------------------
(* interactive changes on the canvas, WorkflowCanvas.jsx:66-67, 142-145, 151-153 *)

MaxEdits == 2

\* the connection drawn by the user: from the first node to the last one
ConnectionParams ==
    [ source |-> nodes[1].id, target |-> nodes[Len(nodes)].id,
      sourceHandle |-> Null, targetHandle |-> Null ]

\* addEdge(params, eds) of @xyflow/react: the edge is appended unless an edge
\* with the same endpoints and handles is in the list
addEdge(params, eds) ==
    LET edge == [ id |-> Str("xy-edge__" \o params.source.s \o "-" \o params.target.s),
                  source |-> params.source,
                  target |-> params.target,
                  sourceHandle |-> params.sourceHandle,
                  label |-> Undefined ]
        connectionExists ==
            \E i \in 1..Len(eds) :
              /\ eds[i].source = edge.source
              /\ eds[i].target = edge.target
              /\ (eds[i].sourceHandle = edge.sourceHandle
                    \/ (~ToBoolean(eds[i].sourceHandle) /\ ~ToBoolean(edge.sourceHandle)))
    IN  IF connectionExists THEN eds ELSE Append(eds, edge)

\* where the user drops a dragged node
DropPosition == [t |-> "object", x |-> 10, y |-> 10]

\* applyNodeChanges of @xyflow/react for a change of the first node
applyNodeChanges(change, ns) ==
    IF change = "remove" THEN Tail(ns)
    ELSE [ns EXCEPT ![1].position = DropPosition]

\* applyEdgeChanges of @xyflow/react for the removal of the first edge
applyEdgeChanges(es) == Tail(es)

CanvasIdle == pc \in {"installed", "edited"}

onConnect ==
    /\ CanvasIdle
    /\ edits < MaxEdits
    /\ Len(nodes) > 0
    /\ edges' = addEdge(ConnectionParams, edges)
    /\ pc' = "edited"
    /\ edits' = edits + 1
    /\ UNCHANGED <<graphData, nodes, status, prompt, requests, sources>>

onNodesChange(change) ==
    /\ CanvasIdle
    /\ edits < MaxEdits
    /\ Len(nodes) > 0
    /\ nodes' = applyNodeChanges(change, nodes)
    /\ pc' = "edited"
    /\ edits' = edits + 1
    /\ UNCHANGED <<graphData, edges, status, prompt, requests, sources>>

onEdgesChange ==
    /\ CanvasIdle
    /\ edits < MaxEdits
    /\ Len(edges) > 0
    /\ edges' = applyEdgeChanges(edges)
    /\ pc' = "edited"
    /\ edits' = edits + 1
    /\ UNCHANGED <<graphData, nodes, status, prompt, requests, sources>>

-----------------------------------------------------------------------------
(* WorkflowConsole, WorkflowConsole.jsx:4-97, 151-155, 186-199 *)

MaxSources == 3

\* the graphs a response carries in results.graph
ResponseGraphs == {ScenarioGraph, BrokenGraph}

\* the form is disabled: status === 'planning' || status === 'executing'
FormDisabled == status \in {"planning", "executing"}

\* an error thrown by the canvas effect unmounts the application: state
\* updates made afterwards are dropped
Alive == pc # "raised"

\* effects are flushed before the next event is handled
Flushed == pc # "pending"

\* setGraphData(g): {graphData && <WorkflowCanvas graphData={graphData} />}
\* unmounts the canvas on null, mounts it with empty state after null, and
\* otherwise hands the mounted canvas a new prop
setGraphData(g) ==
    /\ graphData' = g
    /\ IF g.t = "null"
       THEN nodes' = <<>> /\ edges' = <<>> /\ pc' = "unmounted"
       ELSE IF pc = "unmounted"
            THEN nodes' = <<>> /\ edges' = <<>> /\ pc' = "pending"
            ELSE pc' = "pending" /\ UNCHANGED <<nodes, edges>>

ConsoleInit ==
    /\ graphData = NullGraph
    /\ nodes = <<>>
    /\ edges = <<>>
    /\ pc = "unmounted"
    /\ status = "idle"
    /\ prompt = ""
    /\ requests = {}
    /\ sources = 0
    /\ edits = 0

\* onChange of the input: the user types a prompt
setPrompt ==
    /\ Alive /\ Flushed
    /\ ~FormDisabled
    /\ prompt = ""
    /\ prompt' = "p"
    /\ UNCHANGED <<graphData, nodes, edges, pc, status, requests, sources, edits>>

\* handleSubmit up to its first await
handleSubmit ==
    /\ Alive /\ Flushed
    /\ ~FormDisabled
    /\ prompt # ""
    /\ sources < MaxSources
    /\ status' = "planning"
    /\ setGraphData(NullGraph)
    /\ prompt' = ""
    /\ sources' = sources + 1
    /\ requests' = requests \cup {[id |-> sources + 1, stage |-> "fetch"]}
    /\ UNCHANGED edits

loadSampleGraph ==
    /\ Alive /\ Flushed
    /\ sources < MaxSources
    /\ setGraphData(SampleGraph)
    /\ status' = "success"
    /\ sources' = sources + 1
    /\ UNCHANGED <<prompt, requests, edits>>

\* the catch block, and the else branch of handleSubmit: setStatus('error')
Fails(r) ==
    /\ Flushed
    /\ requests' = requests \ {r}
    /\ status' = IF Alive THEN "error" ELSE status
    /\ UNCHANGED <<graphData, nodes, edges, pc, prompt, sources, edits>>

\* fetch rejects, or resolves with a response that is not ok
FetchFails(r) == r.stage = "fetch" /\ Fails(r)

\* fetch resolves with an ok response: handleSubmit waits for response.json()
FetchSucceeds(r) ==
    /\ Flushed
    /\ r.stage = "fetch"
    /\ requests' = (requests \ {r}) \cup {[r EXCEPT !.stage = "json"]}
    /\ UNCHANGED <<graphData, nodes, edges, pc, status, prompt, sources, edits>>

\* response.json() rejects, or the data carries no results.graph
ResponseWithoutGraph(r) == r.stage = "json" /\ Fails(r)

\* the data carries results.graph: setGraphData, setStatus('executing'), the
\* logs, setStatus('success'); data.messages that is no array makes
\* rawMessages.map throw after setGraphData, and the catch block sets 'error'
ResponseWithGraph(r, g, messagesOk) ==
    /\ Flushed
    /\ r.stage = "json"
    /\ requests' = requests \ {r}
    /\ IF Alive
       THEN /\ setGraphData(g)
            /\ status' = IF messagesOk THEN "success" ELSE "error"
       ELSE UNCHANGED <<graphData, nodes, edges, pc, status>>
    /\ UNCHANGED <<prompt, sources, edits>>

ConsoleNext ==
    \/ setPrompt
    \/ handleSubmit
    \/ loadSampleGraph
    \/ \E r \in requests : FetchFails(r)
    \/ \E r \in requests : FetchSucceeds(r)
    \/ \E r \in requests : ResponseWithoutGraph(r)
    \/ \E r \in requests : \E g \in ResponseGraphs : \E messagesOk \in BOOLEAN :
         ResponseWithGraph(r, g, messagesOk)
    \/ EffectRaises
    \/ EffectInstalls
    \/ onConnect
    \/ \E change \in {"remove", "position"} : onNodesChange(change)
    \/ onEdgesChange

ConsoleSpec == ConsoleInit /\ [][ConsoleNext]_vars

-----------------------------------------------------------------------------
(* the claims *)

Installed == pc = "installed"

\* the kinds the specification calls decision kinds
DecisionKinds == {Str("condition"), Str("control")}

\* the installed node an endpoint resolves to, 0 if it dangles
Resolve(id) == FindIndex(nodes, id)

LeavesDecisionNode(e) ==
    Resolve(e.source) # 0 /\ nodes[Resolve(e.source)].type \in DecisionKinds

RawEdgeAt(i) == RawEdges(graphData)[i]
RawNodeAt(i) == RawNodes(graphData)[i]

\* C1: an edge leaving a decision node that carries both an explicit handle
\* and a label gets the handle as its branch, whatever the label says
C1_HandleWinsOverLabel ==
    Installed =>
      \A i \in 1..Len(edges) :
        ( /\ LeavesDecisionNode(edges[i])
          /\ RawEdgeAt(i).sourceHandle # Undefined
          /\ RawEdgeAt(i).label # Undefined )
        => edges[i].sourceHandle = RawEdgeAt(i).sourceHandle

\* C2: the normalization pass never raises, whatever the raw graph
C2_NormalizationNeverRaises == pc # "raised"

\* C3: a raw graph that carries the workflows container takes its nodes and
\* edges from the first workflow record only, and has none when the container
\* is empty; the top-level nodes and edges are not used
C3_NestedShapeOnly ==
    (Installed /\ graphData.workflows.t = "array") =>
      LET ws == graphData.workflows.items
          N  == IF ws = <<>> THEN <<>> ELSE OrEmpty(ws[1].workflow_data.nodes).items
          E  == IF ws = <<>> THEN <<>> ELSE OrEmpty(ws[1].workflow_data.connections).items
      IN  /\ Len(nodes) = Len(N)
          /\ Len(edges) = Len(E)
          /\ \A i \in 1..Len(nodes) : nodes[i].id = Str(String(N[i].id))

\* C3, amended: a raw graph whose workflows container has a first record takes
\* its nodes and edges from that record's workflow_data only (none where a list
\* is absent), whatever the top-level nodes and edges are; a raw graph whose
\* workflows container is absent or empty takes them from its top-level fields
C3_FirstRecordOrTopLevel ==
    Installed =>
      LET ws == graphData.workflows.items
          nested == graphData.workflows.t = "array" /\ ws # <<>>
          N  == IF nested THEN OrEmpty(ws[1].workflow_data.nodes).items
                ELSE OrEmpty(graphData.nodes).items
          E  == IF nested THEN OrEmpty(ws[1].workflow_data.connections).items
                ELSE OrEmpty(graphData.edges).items
      IN  /\ Len(nodes) = Len(N)
          /\ Len(edges) = Len(E)
          /\ \A i \in 1..Len(nodes) :
               CanonicalOf(nodes[i]) = CanonicalOf(NormalizeNode(N[i]))
          /\ \A i \in 1..Len(edges) :
               edges[i].label = EdgeLabel(E[i])

\* C3 witness: the nodes of the first of two workflow records are installed
\* though the raw graph also has other top-level nodes and edges
C3_Witness ==
    /\ Installed
    /\ graphData.workflows.t = "array"
    /\ Len(graphData.workflows.items) = 2
    /\ graphData.nodes.t = "array"
    /\ graphData.edges.t = "array"
    /\ Len(graphData.nodes.items) > Len(nodes)
    /\ Len(graphData.edges.items) > Len(edges)
    /\ Len(nodes) = 1

\* C4: the type of every canonical node is one of the eleven recognized kinds
C4_TypeIsRecognized ==
    Installed => \A i \in 1..Len(nodes) : nodes[i].type \in {Str(k) : k \in nodeTypes}

\* C5: an edge has a branch only if its source resolves to a decision-kind node
C5_BranchOnlyFromDecision ==
    Installed =>
      \A i \in 1..Len(edges) :
        edges[i].sourceHandle # Undefined => LeavesDecisionNode(edges[i])

\* C6: the branch of every canonical edge is 'true', 'false' or absent
C6_BranchIsThreeValued ==
    Installed =>
      \A i \in 1..Len(edges) :
        edges[i].sourceHandle \in {Str("true"), Str("false"), Undefined}

\* the raw edge names no branch: no handle, no true/false label, no condition value
NamesNoBranch(e) ==
    /\ e.sourceHandle = Undefined
    /\ ToLowerCase(String(e.label)) \notin {"true", "false"}
    /\ ConditionValue(e) = Undefined

\* C7: no node and no edge is dropped or reordered: the canonical lists are as
\* long as the raw lists and their i-th elements derive from the i-th raw
\* elements; an edge that names no branch keeps a null branch and an edge with
\* a dangling endpoint is still there
C7_NothingDroppedOrReordered ==
    pc # "pending" =>
      /\ Len(nodes) = Len(RawNodes(graphData))
      /\ Len(edges) = Len(RawEdges(graphData))
      /\ \A i \in 1..Len(nodes) :
           /\ nodes[i].id = Str(String(RawNodeAt(i).id))
           /\ CanonicalOf(nodes[i]) = CanonicalOf(NormalizeNode(RawNodeAt(i)))
      /\ \A i \in 1..Len(edges) :
           /\ edges[i] = ProcessEdge(RawEdgeAt(i), i - 1, nodes)
           /\ NamesNoBranch(RawEdgeAt(i)) => edges[i].sourceHandle = Undefined

\* C7 witness: two installed nodes in raw order and, after another edge, an
\* edge that leaves a decision node, names no branch and has a dangling target
C7_Witness ==
    /\ Installed
    /\ Len(nodes) = 2
    /\ nodes[1].id # nodes[2].id
    /\ Len(edges) >= 2
    /\ LET e == edges[Len(edges)]
       IN  /\ LeavesDecisionNode(e)
           /\ NamesNoBranch(RawEdgeAt(Len(edges)))
           /\ Resolve(e.target) = 0
           /\ e.sourceHandle = Undefined

\* C8: the canonical source is the string form of the raw source field when
\* that field is present, of the from field otherwise; likewise target and to
C8_SourceFieldFirst ==
    Installed =>
      \A i \in 1..Len(edges) :
        /\ edges[i].source =
             Str(String(IF RawEdgeAt(i).source # Undefined
                        THEN RawEdgeAt(i).source ELSE RawEdgeAt(i).from))
        /\ edges[i].target =
             Str(String(IF RawEdgeAt(i).target # Undefined
                        THEN RawEdgeAt(i).target ELSE RawEdgeAt(i).to))

\* C9: the canonical label is the explicit label when one is supplied, else the
\* upper-cased string form of condition.value when a value is present, else ""
C9_EdgeLabelRule ==
    Installed =>
      \A i \in 1..Len(edges) :
        edges[i].label =
          IF RawEdgeAt(i).label # Undefined THEN RawEdgeAt(i).label
          ELSE IF ConditionValue(RawEdgeAt(i)) # Undefined
               THEN Str(ToUpperCase(String(ConditionValue(RawEdgeAt(i)))))
               ELSE Str("")

IsSimpleShape(g) == g.t = "object" /\ g.workflows.t = "undefined"

\* C10: the simple shape {nodes: N, edges: E} and the nested shape
\* {workflows: [{workflow_data: {nodes: N, connections: E}}]} install the same
\* nodes and edges
C10_ShapeEquivalence ==
    (Installed /\ IsSimpleShape(graphData)) =>
      LET twin == NestedGraph(graphData.nodes, graphData.edges)
          result == getLayoutedElements(CanonicalNodes(twin), CanonicalEdges(twin))
      IN  /\ ~ShapeRaises(twin)
          /\ nodes = result.nodes
          /\ edges = result.edges

\* C10 witness: a simple-shape graph with nodes and with an edge that resolves
\* a branch has been installed
C10_Witness ==
    /\ Installed
    /\ IsSimpleShape(graphData)
    /\ Len(nodes) >= 2
    /\ \E i \in 1..Len(edges) : edges[i].sourceHandle = Str("true")

-----------------------------------------------------------------------------
(* export and re-ingestion, WorkflowConsole.jsx:86-97 *)

\* JSON.parse(JSON.stringify(v)) of a property value: a property whose value
\* is undefined is left out, and reads back as undefined
Json(v) == IF v.t = "undefined" THEN Undefined ELSE v

\* a canonical node as it reads back from the {nodes, edges} export: params
\* and the hints are properties of data, no top-level field carries them
ExportNode(node) ==
    [ id |-> Json(node.id),
      type |-> Json(node.type),
      label |-> Undefined,
      data |-> [ t |-> "object",
                 label |-> Json(node.data.label),
                 nodeType |-> Json(node.data.nodeType),
                 config |-> Json(node.data.config) ],
      config |-> Undefined,
      params |-> Undefined,
      integration_type_name |-> Undefined,
      task |-> Undefined,
      task_display_name |-> Undefined,
      position |-> node.position ]

ExportEdge(edge) ==
    RawEdge(Json(edge.id), Json(edge.source), Undefined, Json(edge.target), Undefined,
            Json(edge.sourceHandle), Json(edge.label), NoCondition)

ExportGraph(ns, es) ==
    SimpleGraph(Arr([i \in 1..Len(ns) |-> ExportNode(ns[i])]),
                Arr([i \in 1..Len(es) |-> ExportEdge(es[i])]))

\* C11: the installed canonical graph, exported as {nodes, edges} and
\* normalized again, is the same canonical graph: every node keeps its id,
\* kind, label, nodeType, config, params and hints, every edge its id,
\* endpoints, branch and label
C11_RoundTrip ==
    Installed =>
      LET again == ExportGraph(nodes, edges)
      IN  /\ Len(CanonicalNodes(again)) = Len(nodes)
          /\ \A i \in 1..Len(nodes) :
               CanonicalOf(CanonicalNodes(again)[i]) = CanonicalOf(nodes[i])
          /\ CanonicalEdges(again) = edges

-----------------------------------------------------------------------------
(* placement *)

\* the installed graph is the linear chain a -> b -> c of its three nodes
IsChain(a, b, c) ==
    /\ Len(nodes) = 3 /\ Len(edges) = 2
    /\ {a, b, c} = 1..3
    /\ nodes[a].id # nodes[b].id /\ nodes[b].id # nodes[c].id /\ nodes[a].id # nodes[c].id
    /\ {<<edges[1].source, edges[1].target>>, <<edges[2].source, edges[2].target>>}
         = {<<nodes[a].id, nodes[b].id>>, <<nodes[b].id, nodes[c].id>>}

\* C12: in a linear chain A -> B -> C, whatever the kinds of the three nodes
\* and the order in which nodes and edges are listed, the emitted top-left x
\* grows strictly along the chain
C12_ChainRankOrder ==
    Installed =>
      \A a, b, c \in 1..Len(nodes) :
        IsChain(a, b, c) =>
          /\ nodes[a].position.x < nodes[b].position.x
          /\ nodes[b].position.x < nodes[c].position.x

\* C12 witness: a chain is installed whose middle node is a decision node
\* between two plain ones, and is listed after its successor
C12_Witness ==
    /\ Installed
    /\ \E a, b, c \in 1..Len(nodes) :
         /\ IsChain(a, b, c)
         /\ isDiamond(nodes[b]) /\ ~isDiamond(nodes[a]) /\ ~isDiamond(nodes[c])
         /\ c < b

\* the installed node with the given id
NodeById(id) == nodes[Resolve(Str(id))]

\* the installed edges that point at the node with the given id
EdgesTo(id) == {i \in 1..Len(edges) : edges[i].target = Str(id)}

\* C13: for nodes 1 (webhook), 2 (condition), 3 (action), 4 (log) and edges
\* 1->2, 2->3 labelled 'True', 2->4 labelled 'False', the edge to 3 has branch
\* 'true', the edge to 4 has branch 'false', node 1 has the smallest x, and
\* nodes 3 and 4 share an x greater than that of node 2
C13_DecisionScenario ==
    (Installed /\ graphData = ScenarioGraph) =>
      /\ Len(nodes) = 4 /\ Len(edges) = 3
      /\ \A i \in EdgesTo("3") : edges[i].sourceHandle = Str("true")
      /\ \A i \in EdgesTo("4") : edges[i].sourceHandle = Str("false")
      /\ EdgesTo("3") # {} /\ EdgesTo("4") # {}
      /\ \A k \in {"2", "3", "4"} : NodeById("1").position.x < NodeById(k).position.x
      /\ NodeById("3").position.x = NodeById("4").position.x
      /\ NodeById("3").position.x > NodeById("2").position.x

\* C13 witness: the scenario graph has been installed, with four nodes and a
\* decision node that has two outgoing edges
C13_Witness ==
    /\ Installed
    /\ graphData = ScenarioGraph
    /\ Len(nodes) = 4
    /\ isDiamond(NodeById("2"))
    /\ Cardinality({i \in 1..Len(edges) : edges[i].source = Str("2")}) = 2

\* positions a raw node may carry: none, and two points
RawPositions ==
    {NoPosition, [t |-> "object", x |-> 200, y |-> 0], [t |-> "object", x |-> 7, y |-> 900]}

\* the raw graph g with the position field of every raw node replaced by p
RepositionList(l, p) ==
    IF l.t = "array"
    THEN Arr([i \in 1..Len(l.items) |-> [l.items[i] EXCEPT !.position = p]])
    ELSE l

RepositionWorkflow(w, p) ==
    IF w.workflow_data.t = "object"
    THEN [w EXCEPT !.workflow_data.nodes = RepositionList(w.workflow_data.nodes, p)]
    ELSE w

Reposition(g, p) ==
    [g EXCEPT !.nodes = RepositionList(g.nodes, p),
              !.workflows = IF g.workflows.t = "array"
                            THEN Arr([i \in 1..Len(g.workflows.items) |->
                                        RepositionWorkflow(g.workflows.items[i], p)])
                            ELSE g.workflows]

\* C14: a raw graph that differs from the submitted one only in the position
\* fields of its nodes produces the same positioned nodes and the same edges
C14_RawPositionsIgnored ==
    Installed =>
      \A p \in RawPositions :
        LET twin == Reposition(graphData, p)
            result == getLayoutedElements(CanonicalNodes(twin), CanonicalEdges(twin))
        IN  /\ ~ShapeRaises(twin)
            /\ nodes = result.nodes
            /\ edges = result.edges

\* C14 witness: a graph of several nodes is installed, one of which carried a
\* raw position and is placed elsewhere
C14_Witness ==
    /\ Installed
    /\ Len(nodes) >= 2
    /\ \E i \in 1..Len(nodes) :
         /\ RawNodeAt(i).position.t = "object"
         /\ RawNodeAt(i).position.x # nodes[i].position.x

-----------------------------------------------------------------------------
(* the canvas under the console *)

\* what a canvas mounted with the raw graph g and no nodes or edges installs
FreshCanvas(g) == getLayoutedElements(CanonicalNodes(g), CanonicalEdges(g))

\* C15: whatever graphs were submitted and whatever the user connected, moved
\* or removed on the canvas before, the nodes and edges installed for a raw
\* graph are those a fresh canvas installs for it
C15_HistoryIndependence ==
    Installed =>
      /\ nodes = FreshCanvas(graphData).nodes
      /\ edges = FreshCanvas(graphData).edges

\* C15 witness: a graph has been installed on a canvas that held an earlier
\* graph on which the user had made changes
C15_Witness ==
    /\ Installed
    /\ edits > 0
    /\ sources > 1
    /\ Len(edges) > 0

-----------------------------------------------------------------------------
(* decision nodes *)

\* C16: the normalizer resolves branches for, and the layout gives the larger
\* footprint to, exactly the nodes whose canonical type is 'condition' or
\* 'control', and the two agree on every node
C16_DecisionKindByType ==
    Installed =>
      \A i \in 1..Len(nodes) :
        /\ isDiamond(nodes[i]) <=> nodes[i].type \in DecisionKinds
        /\ IsDecision(nodes, nodes[i].id) <=> isDiamond(nodes[Resolve(nodes[i].id)])

\* the ids of the source handles CustomNode renders for a node, Undefined for
\* the handle without id, CustomNode.jsx:91, 145-156
SourceHandles(node) ==
    IF node.data.nodeType \in {Str("condition"), Str("switch")}
    THEN {Str("true"), Str("false"), Undefined}
    ELSE {Undefined}

\* C17: every node the normalizer treats as a decision node is rendered with
\* the three source handles 'true', 'false' and unnamed, every other node with
\* the unnamed source handle alone, and every edge whose branch is 'true' or
\* 'false' leaves a node that renders a handle with that id
C17_HandlesMatchBranches ==
    Installed =>
      /\ \A i \in 1..Len(nodes) :
           SourceHandles(nodes[i]) =
             IF isDiamond(nodes[i])
             THEN {Str("true"), Str("false"), Undefined}
             ELSE {Undefined}
      /\ \A k \in 1..Len(edges) :
           edges[k].sourceHandle \in {Str("true"), Str("false")} =>
             /\ Resolve(edges[k].source) # 0
             /\ edges[k].sourceHandle \in SourceHandles(nodes[Resolve(edges[k].source)])

-----------------------------------------------------------------------------
(* frame of the layout *)

\* the footprint the specification gives a canonical node
KindWidth(node)  == IF node.type \in DecisionKinds THEN DiamondWidth ELSE RectWidth
KindHeight(node) == IF node.type \in DecisionKinds THEN DiamondHeight ELSE RectHeight

\* C18: the layout returns the edge list as it got it and the nodes in their
\* order with id, type and data as they were, adding position, targetPosition
\* and sourcePosition only; every node, also one no edge touches or one only a
\* dangling edge touches, is placed at its layout centre minus half of the
\* footprint used for spacing, 300x150 for a decision kind, 250x120 otherwise
C18_LayoutOnlyPlaces ==
    Installed =>
      LET ns == CanonicalNodes(graphData)
          es == CanonicalEdges(graphData)
      IN  /\ edges = es
          /\ Len(nodes) = Len(ns)
          /\ \A i \in 1..Len(nodes) :
               /\ CanonicalOf(nodes[i]) = CanonicalOf(ns[i])
               /\ DOMAIN nodes[i] = DOMAIN ns[i] \cup {"targetPosition", "sourcePosition"}
               /\ VertexWidth(ns, ns[i].id) = KindWidth(ns[i])
               /\ VertexHeight(ns, ns[i].id) = KindHeight(ns[i])
               /\ nodes[i].position.x =
                    DagreNode(ns, es, ns[i].id).x - VertexWidth(ns, ns[i].id) \div 2
               /\ nodes[i].position.y =
                    DagreNode(ns, es, ns[i].id).y - VertexHeight(ns, ns[i].id) \div 2

-----------------------------------------------------------------------------
(* status of the console *)

\* this step issues a request
Issues == \E q \in requests' : q \notin requests /\ q.stage = "fetch"

\* this step runs the last part of the handleSubmit invocation r
Settles(r) == r \in requests /\ \A q \in requests' : q.id # r.id

\* C19: an accepted submission sets status 'planning'; when its request has
\* settled, handleSubmit leaves status at 'success' or 'error', never at
\* 'planning' or 'executing'; a request that rejects, is answered not-ok or
\* carries no results.graph leaves status 'error' and installs no graph; and
\* status 'success' is reached only together with the graph of the response
C19_StatusFollowsRequest ==
    [][ /\ Issues => status' = "planning"
        /\ \A r \in requests :
             /\ Settles(r) => status' \in {"success", "error"}
             /\ (FetchFails(r) \/ ResponseWithoutGraph(r)) =>
                  status' = "error" /\ graphData' = graphData
             /\ (Settles(r) /\ status' = "success") => graphData' \in ResponseGraphs
      ]_vars

\* C20: at most one generation request is in flight at any time, and the
\* response or failure of a request changes neither graph nor status once a
\* later submission or sample load has been made
C20_NewerSourceSupersedes ==
    [][ /\ Cardinality(requests') <= 1
        /\ \A r \in requests :
             (Settles(r) /\ r.id < sources) => UNCHANGED <<graphData, status>>
      ]_vars

====
